---- MODULE Spec2Model ----
(***************************************************************************)
(* Model of scripts/launch_container.py: the image lifecycle               *)
(* reconciliation (ensure_image_exists / update_image) and the session     *)
(* run, against an external container engine (podman) whose exit codes,    *)
(* output and store are the environment.                                   *)
(*                                                                         *)
(* Every engine call goes through run_command -> subprocess.run.  A call   *)
(* is modelled in two steps: the child is started (the call is appended to *)
(* calls) and later it returns an exit code (appended to rcs).  Between    *)
(* the two the process is blocked; there a KeyboardInterrupt can be        *)
(* delivered.  Starting the child can fail with OSError.                   *)
(***************************************************************************)
EXTENDS Integers, Sequences, FiniteSets, TLC

\* ---------------------------------------------------------------- constants
GHCR_IMAGE_BASE == "ghcr.io/oguztoraman/libmagicxx-dev"
DEFAULT_TAG == "latest"
LOCAL_IMAGE_NAME == "libmagicxx-dev-local"
CONTAINER_FILE == "Containerfile"
MOUNT_TARGET == "/libmagicxx"
PROJECT_ROOT == "<project_root>"

\* exit status of sys.exit(130) in the KeyboardInterrupt handler
CANCELLED == 130

\* ------------------------------------------------------------------- bounds
\* number of container ids the engine's store can hold
MaxContainers == 1

ContainerIds == 1..MaxContainers

\* values of args.tag: the argparse default and the tag of a release branch
Tags == {DEFAULT_TAG, "v10.0.x"}

\* exit codes of the engine's commands.  podman's own commands end 0, 1 (no such
\* image or container) or 125 (engine error); podman run hands through the exit
\* status of the session, which can be any byte, 130 after Ctrl+C in the shell
RunCodes == {0, 3, 130}

EngineCodes == {0, 1, 125}

RetCodes(cmd) == IF cmd = "run" THEN RunCodes ELSE EngineCodes

VARIABLES
    argv,           \* the command line of the current invocation
    images,         \* engine: identities of the images in the local store
    containers,     \* engine: container id -> ancestor image ("" = no such container)
    pc,             \* position of the process
    args,           \* argparse.Namespace of the current invocation
    config,         \* ContainerConfig of the current invocation
    log_level,      \* logger level
    exists,         \* ensure_image_exists: local variable exists
    container_ids,  \* update_image: local variable container_ids
    calls,          \* engine commands started in this invocation, in order
    rcs,            \* exit codes of the commands that returned, in order
    raised,         \* exception that ended the invocation ("" = none)
    error_logged,   \* logger.error was called in the except ContainerError handler
    exit_code,      \* process exit status (-1 = still running)
    last,           \* what the terminated previous process did (valid = there was one)
    prev            \* the current invocation seen against the previous one

vars == <<argv, images, containers, pc, args, config, log_level, exists, container_ids,
          calls, rcs, raised, error_logged, exit_code, last, prev>>

engine == <<images, containers>>
locals == <<exists, container_ids>>
invocation == <<argv, args, config, log_level, last, prev>>
ending == <<raised, error_logged, exit_code>>

\* --------------------------------------------------------------- main: setup
\* mutant: the registry identity always carries the default tag
ImageNameDefaultTagOnly(local, tag) ==
    IF local THEN LOCAL_IMAGE_NAME ELSE GHCR_IMAGE_BASE \o ":" \o DEFAULT_TAG

\* image_name = LOCAL_IMAGE_NAME if args.local else f"{GHCR_IMAGE_BASE}:{args.tag}"
ImageName(local, tag) ==
    IF local THEN LOCAL_IMAGE_NAME ELSE GHCR_IMAGE_BASE \o ":" \o tag

ImageNames == {ImageName(l, t) : l \in BOOLEAN, t \in Tags}

MakeConfig(a) ==
    [image_name |-> ImageName(a.local, a.tag),
     container_file |-> CONTAINER_FILE,
     mount_target |-> MOUNT_TARGET,
     project_root |-> PROJECT_ROOT,
     use_local |-> a.local]

\* the namespaces parse_arguments returns
Args == [tag : Tags, local : BOOLEAN, update : BOOLEAN, verbose : BOOLEAN]

\* -t/--tag is absent from the command line
NoTag == ""

\* -t/--tag absent, or given with the tag of a release branch
TagOptions == {NoTag, "v10.0.x"}

\* command lines: -t/--tag with a value or absent, -l, -u, -v present or not
Argv == [tag : TagOptions, local : BOOLEAN, update : BOOLEAN, verbose : BOOLEAN]

\* the command line without any option
DefaultArgv == [tag |-> NoTag, local |-> FALSE, update |-> FALSE, verbose |-> FALSE]

\* parse_arguments: --tag has default=DEFAULT_TAG, the flags are store_true
ParseArguments(av) ==
    [tag |-> IF av.tag = NoTag THEN DEFAULT_TAG ELSE av.tag,
     local |-> av.local, update |-> av.update, verbose |-> av.verbose]

DefaultArgs == ParseArguments(DefaultArgv)

\* sys.exit(n): the exit status is one byte
SysExit(n) == n % 256

\* ------------------------------------------------------------ engine commands
Call(cmd, image, ids, extra) == [cmd |-> cmd, image |-> image, ids |-> ids, extra |-> extra]

\* f"{config.project_root}:{config.mount_target}:Z"
MountSpec(c) == c.project_root \o ":" \o c.mount_target \o ":Z"

\* a command is outstanding: started, not yet returned
Waiting == pc # "exited" /\ pc # "idle" /\ Len(calls) = Len(rcs) + 1

\* podman ps -a -q --filter ancestor=<image>: the ids, one per line
RECURSIVE IdsFrom(_, _)
IdsFrom(i, image) ==
    IF i > MaxContainers THEN <<>>
    ELSE (IF containers[i] = image THEN <<i>> ELSE <<>>) \o IdsFrom(i + 1, image)

Range(s) == {s[i] : i \in DOMAIN s}

NoLast == [valid |-> FALSE, image_name |-> "", force_update |-> FALSE, ensured |-> FALSE]

NoPrev == [same |-> FALSE, ensured |-> FALSE]

Init ==
    /\ argv = DefaultArgv
    /\ images \in SUBSET ImageNames
    /\ containers \in [ContainerIds -> ImageNames \cup {""}]
    /\ pc = "idle"
    /\ args = DefaultArgs
    /\ config = MakeConfig(DefaultArgs)
    /\ log_level = "INFO"
    /\ exists = FALSE
    /\ container_ids = <<>>
    /\ calls = <<>>
    /\ rcs = <<>>
    /\ raised = ""
    /\ error_logged = FALSE
    /\ exit_code = -1
    /\ last = NoLast
    /\ prev = NoPrev

\* ensure_image_exists returned without raising in the current invocation
Ensured == pc = "run" \/ (calls # <<>> /\ calls[Len(calls)].cmd = "run")

\* main() up to the try block: a new invocation of the script
Main(av) ==
    /\ pc = "idle"
    /\ argv' = av
    /\ args' = ParseArguments(av)
    /\ log_level' = IF args'.verbose THEN "DEBUG" ELSE "INFO"
    /\ config' = MakeConfig(args')
    /\ prev' = [same |-> last.valid /\ last.image_name = config'.image_name
                                   /\ last.force_update = args'.update,
                ensured |-> last.ensured]
    /\ last' = NoLast
    /\ pc' = "image_exists"
    /\ UNCHANGED <<engine, locals, calls, rcs, ending>>

\* sys.exit: the process is gone and with it everything but the engine's store
Terminate ==
    /\ pc = "exited"
    /\ last' = [valid |-> TRUE, image_name |-> config.image_name,
                force_update |-> args.update, ensured |-> Ensured]
    /\ pc' = "idle"
    /\ argv' = DefaultArgv
    /\ args' = DefaultArgs
    /\ config' = MakeConfig(DefaultArgs)
    /\ log_level' = "INFO"
    /\ exists' = FALSE
    /\ container_ids' = <<>>
    /\ calls' = <<>>
    /\ rcs' = <<>>
    /\ raised' = ""
    /\ error_logged' = FALSE
    /\ exit_code' = -1
    /\ prev' = NoPrev
    /\ UNCHANGED engine

\* mutant: pull_image pulls the registry image without the tag given
CommandPullLatest(p) ==
    CASE p = "image_exists" -> Call("image_exists", config.image_name, <<>>, "")
      [] p = "ps"    -> Call("ps", config.image_name, <<>>, "")
      [] p = "stop"  -> Call("stop", "", container_ids, "")
      [] p = "rm"    -> Call("rm", "", container_ids, "")
      [] p = "rmi"   -> Call("rmi", config.image_name, <<>>, "")
      [] p = "pull"  -> Call("pull", GHCR_IMAGE_BASE \o ":" \o DEFAULT_TAG, <<>>, "")
      [] p = "build" -> Call("build", config.image_name, <<>>, config.container_file)
      [] p = "run"   -> Call("run", config.image_name, <<>>, MountSpec(config))

\* the argument list each function hands to run_command at position p
Command(p) ==
    CASE p = "image_exists" -> Call("image_exists", config.image_name, <<>>, "")
      [] p = "ps"    -> Call("ps", config.image_name, <<>>, "")
      [] p = "stop"  -> Call("stop", "", container_ids, "")
      [] p = "rm"    -> Call("rm", "", container_ids, "")
      [] p = "rmi"   -> Call("rmi", config.image_name, <<>>, "")
      [] p = "pull"  -> Call("pull", config.image_name, <<>>, "")
      [] p = "build" -> Call("build", config.image_name, <<>>, config.container_file)
      [] p = "run"   -> Call("run", config.image_name, <<>>, MountSpec(config))

Steps == {"image_exists", "ps", "stop", "rm", "rmi", "pull", "build", "run"}

\* mutant: get_container_ids passes check=False
CheckPsTolerated(cmd) == cmd \notin {"image_exists", "ps", "stop", "rm", "rmi"}

\* mutant: pull_image and build_image pass check=False
CheckAcquireTolerated(cmd) == cmd \notin {"image_exists", "stop", "rm", "rmi", "pull", "build"}

\* mutant: image_exists passes the default check=True
CheckExistsStrict(cmd) == cmd \notin {"stop", "rm", "rmi"}

\* mutant: podman stop is run with the default check=True
CheckStopStrict(cmd) == cmd \notin {"image_exists", "rm", "rmi"}

\* the check= argument each caller passes to run_command (default True)
Check(cmd) == cmd \notin {"image_exists", "stop", "rm", "rmi"}

\* run_command: subprocess.run raises CalledProcessError, turned into ContainerError
RunCommandRaises(cmd, rc) == Check(cmd) /\ rc # 0

\* pull_image / build_image chosen by config.use_local
Acquire(use_local) == IF use_local THEN "build" ELSE "pull"

\* mutant: the refresh flag alone selects the refresh path
EnsureBranchRefreshWhenAbsent(ex, force_update, use_local) ==
    IF force_update THEN "ps"
    ELSE IF ~ex THEN Acquire(use_local)
    ELSE "run"

\* mutant: the final else branch (image already exists) acquires again
EnsureBranchAlwaysAcquire(ex, force_update, use_local) ==
    IF ex /\ force_update THEN "ps"
    ELSE Acquire(use_local)

\* mutant: an absent image is not acquired
EnsureBranchSkipAcquire(ex, force_update, use_local) ==
    IF ex /\ force_update THEN "ps"
    ELSE "run"

\* ensure_image_exists: the branch taken after the existence check
EnsureBranch(ex, force_update, use_local) ==
    IF ex /\ force_update THEN "ps"
    ELSE IF ~ex THEN Acquire(use_local)
    ELSE "run"

\* mutant: cleanup_containers removes the containers before stopping them
UpdateImageNextRmFirst(p, ids, use_local) ==
    CASE p = "ps"   -> IF ids = <<>> THEN "rmi" ELSE "rm"
      [] p = "rm"   -> "stop"
      [] p = "stop" -> "rmi"
      [] p = "rmi"  -> Acquire(use_local)

\* mutant: update_image returns after remove_image, without acquiring again
UpdateImageNextNoReacquire(p, ids, use_local) ==
    CASE p = "ps"   -> IF ids = <<>> THEN "rmi" ELSE "stop"
      [] p = "stop" -> "rm"
      [] p = "rm"   -> "rmi"
      [] p = "rmi"  -> "run"

\* mutant: update_image asks again whether the image exists after remove_image
UpdateImageNextRecheck(p, ids, use_local) ==
    CASE p = "ps"   -> IF ids = <<>> THEN "rmi" ELSE "stop"
      [] p = "stop" -> "rm"
      [] p = "rm"   -> "rmi"
      [] p = "rmi"  -> "image_exists"

\* mutant: cleanup_containers stops the containers again after removing them
UpdateImageNextStopAgain(p, ids, use_local) ==
    CASE p = "ps"   -> IF ids = <<>> THEN "rmi" ELSE "stop"
      [] p = "stop" -> "rm"
      [] p = "rm"   -> "stop"
      [] p = "rmi"  -> Acquire(use_local)

\* mutant: cleanup_containers without the early return on an empty list
UpdateImageNextNoEarlyReturn(p, ids, use_local) ==
    CASE p = "ps"   -> "stop"
      [] p = "stop" -> "rm"
      [] p = "rm"   -> "rmi"
      [] p = "rmi"  -> Acquire(use_local)

\* update_image with cleanup_containers and remove_image inlined: the command
\* that follows command p (cleanup_containers returns early on an empty list)
UpdateImageNext(p, ids, use_local) ==
    CASE p = "ps"   -> IF ids = <<>> THEN "rmi" ELSE "stop"
      [] p = "stop" -> "rm"
      [] p = "rm"   -> "rmi"
      [] p = "rmi"  -> Acquire(use_local)

\* mutant: ContainerError is raised without return_code (its default, 1)
ContainerErrorExitDefaultCode(rc) ==
    /\ raised' = "ContainerError"
    /\ error_logged' = TRUE
    /\ exit_code' = SysExit(1)
    /\ pc' = "exited"

\* except ContainerError as e: logger.error(...); sys.exit(e.return_code)
ContainerErrorExit(rc) ==
    /\ raised' = "ContainerError"
    /\ error_logged' = TRUE
    /\ exit_code' = SysExit(rc)
    /\ pc' = "exited"

\* subprocess.run starts the child process of the command at pc
StartCommand ==
    /\ pc \in Steps
    /\ ~Waiting
    /\ calls' = Append(calls, Command(pc))
    /\ UNCHANGED <<engine, pc, invocation, locals, rcs, ending>>

\* subprocess.run cannot start the child (FileNotFoundError, PermissionError):
\* no handler in run_command or main catches OSError; the interpreter exits 1
StartFails ==
    /\ pc \in Steps
    /\ ~Waiting
    /\ calls' = Append(calls, Command(pc))
    /\ raised' = "OSError"
    /\ exit_code' = 1
    /\ pc' = "exited"
    /\ UNCHANGED <<engine, invocation, locals, rcs, error_logged>>

\* image_exists: podman image exists <image>, check=False
ImageExistsReturn(rc) ==
    /\ Waiting /\ pc = "image_exists"
    /\ rc = 0 => config.image_name \in images
    /\ rcs' = Append(rcs, rc)
    /\ IF RunCommandRaises("image_exists", rc)
       THEN ContainerErrorExit(rc) /\ UNCHANGED locals
       ELSE /\ exists' = (rc = 0)
            /\ pc' = EnsureBranch(rc = 0, args.update, config.use_local)
            /\ UNCHANGED <<container_ids, ending>>
    /\ UNCHANGED <<engine, invocation, calls>>

\* get_container_ids: podman ps -a -q --filter ancestor=<image>, then cleanup_containers' test
GetContainerIdsReturn(rc) ==
    /\ Waiting /\ pc = "ps"
    /\ rcs' = Append(rcs, rc)
    /\ IF RunCommandRaises("ps", rc)
       THEN ContainerErrorExit(rc) /\ UNCHANGED locals
       ELSE /\ container_ids' = IdsFrom(1, config.image_name)
            /\ pc' = UpdateImageNext("ps", container_ids', config.use_local)
            /\ UNCHANGED <<exists, ending>>
    /\ UNCHANGED <<engine, invocation, calls>>

\* cleanup_containers: podman stop <ids>, check=False
StopReturn(rc) ==
    /\ Waiting /\ pc = "stop"
    /\ rcs' = Append(rcs, rc)
    /\ IF RunCommandRaises("stop", rc)
       THEN ContainerErrorExit(rc)
       ELSE pc' = UpdateImageNext("stop", container_ids, config.use_local) /\ UNCHANGED ending
    /\ UNCHANGED <<engine, invocation, locals, calls>>

\* engine: the containers left after podman rm <ids> succeeded
Removed(ids) == [i \in ContainerIds |-> IF i \in Range(ids) THEN "" ELSE containers[i]]

\* cleanup_containers: podman rm <ids>, check=False
RmReturn(rc) ==
    /\ Waiting /\ pc = "rm"
    /\ rcs' = Append(rcs, rc)
    /\ containers' = IF rc = 0 THEN Removed(container_ids) ELSE containers
    /\ IF RunCommandRaises("rm", rc)
       THEN ContainerErrorExit(rc)
       ELSE pc' = UpdateImageNext("rm", container_ids, config.use_local) /\ UNCHANGED ending
    /\ UNCHANGED <<images, invocation, locals, calls>>

\* remove_image: podman rmi <image>, check=False; then update_image's acquire branch
RmiReturn(rc) ==
    /\ Waiting /\ pc = "rmi"
    /\ rcs' = Append(rcs, rc)
    /\ images' = IF rc = 0 THEN images \ {config.image_name} ELSE images
    /\ IF RunCommandRaises("rmi", rc)
       THEN ContainerErrorExit(rc)
       ELSE pc' = UpdateImageNext("rmi", container_ids, config.use_local) /\ UNCHANGED ending
    /\ UNCHANGED <<containers, invocation, locals, calls>>

\* pull_image: podman pull <image>
PullReturn(rc) ==
    /\ Waiting /\ pc = "pull"
    /\ rcs' = Append(rcs, rc)
    /\ images' = IF rc = 0 THEN images \cup {config.image_name} ELSE images
    /\ IF RunCommandRaises("pull", rc)
       THEN ContainerErrorExit(rc)
       ELSE pc' = "run" /\ UNCHANGED ending
    /\ UNCHANGED <<containers, invocation, locals, calls>>

\* build_image: podman build --pull=always -t <image> -f <container_file>
BuildReturn(rc) ==
    /\ Waiting /\ pc = "build"
    /\ rcs' = Append(rcs, rc)
    /\ images' = IF rc = 0 THEN images \cup {config.image_name} ELSE images
    /\ IF RunCommandRaises("build", rc)
       THEN ContainerErrorExit(rc)
       ELSE pc' = "run" /\ UNCHANGED ending
    /\ UNCHANGED <<containers, invocation, locals, calls>>

\* run_container: podman run -it --rm -v <mount> <image>; then sys.exit(0)
RunReturn(rc) ==
    /\ Waiting /\ pc = "run"
    /\ rcs' = Append(rcs, rc)
    /\ IF RunCommandRaises("run", rc)
       THEN ContainerErrorExit(rc)
       ELSE /\ exit_code' = SysExit(0)
            /\ pc' = "exited"
            /\ UNCHANGED <<raised, error_logged>>
    /\ UNCHANGED <<engine, invocation, locals, calls>>

\* mutant: the interrupt is reported like any other failure
KeyboardInterruptExitAsFailure ==
    /\ raised' = "KeyboardInterrupt"
    /\ error_logged' = FALSE
    /\ exit_code' = SysExit(1)
    /\ pc' = "exited"

\* except KeyboardInterrupt: logger.info(...); sys.exit(130)
KeyboardInterruptExit ==
    /\ raised' = "KeyboardInterrupt"
    /\ error_logged' = FALSE
    /\ exit_code' = SysExit(CANCELLED)
    /\ pc' = "exited"

\* A SIGINT while subprocess.run waits for the child.  The interrupted child may or may
\* not have done its work (done); nothing is rolled back.
KeyboardInterrupt(done) ==
    /\ Waiting
    /\ images' = IF ~done THEN images
                 ELSE IF pc = "rmi" THEN images \ {config.image_name}
                 ELSE IF pc \in {"pull", "build"} THEN images \cup {config.image_name}
                 ELSE images
    /\ containers' = IF done /\ pc = "rm" THEN Removed(container_ids) ELSE containers
    /\ KeyboardInterruptExit
    /\ UNCHANGED <<invocation, locals, calls, rcs>>

Next ==
    \/ \E av \in Argv : Main(av)
    \/ Terminate
    \/ StartCommand
    \/ StartFails
    \/ \E rc \in RetCodes("image_exists") : ImageExistsReturn(rc)
    \/ \E rc \in RetCodes("ps") : GetContainerIdsReturn(rc)
    \/ \E rc \in RetCodes("stop") : StopReturn(rc)
    \/ \E rc \in RetCodes("rm") : RmReturn(rc)
    \/ \E rc \in RetCodes("rmi") : RmiReturn(rc)
    \/ \E rc \in RetCodes("pull") : PullReturn(rc)
    \/ \E rc \in RetCodes("build") : BuildReturn(rc)
    \/ \E rc \in RetCodes("run") : RunReturn(rc)
    \/ \E done \in BOOLEAN : KeyboardInterrupt(done)

Spec == Init /\ [][Next]_vars

\* a started process keeps running and every engine call it waits for ends: the
\* child returns, cannot be started, or the wait is interrupted
Progress ==
    \/ StartCommand
    \/ StartFails
    \/ \E rc \in RetCodes("image_exists") : ImageExistsReturn(rc)
    \/ \E rc \in RetCodes("ps") : GetContainerIdsReturn(rc)
    \/ \E rc \in RetCodes("stop") : StopReturn(rc)
    \/ \E rc \in RetCodes("rm") : RmReturn(rc)
    \/ \E rc \in RetCodes("rmi") : RmiReturn(rc)
    \/ \E rc \in RetCodes("pull") : PullReturn(rc)
    \/ \E rc \in RetCodes("build") : BuildReturn(rc)
    \/ \E rc \in RetCodes("run") : RunReturn(rc)
    \/ \E done \in BOOLEAN : KeyboardInterrupt(done)

FairSpec == Spec /\ WF_vars(Progress)

TypeOK ==
    /\ images \subseteq ImageNames
    /\ pc \in Steps \cup {"idle", "exited"}
    /\ args \in Args
    /\ Len(rcs) <= Len(calls)
    /\ exit_code \in -1..255

\* ------------------------------------------------------------------ claims
Cmds == [i \in 1..Len(calls) |-> calls[i].cmd]

Issued(c) == \E i \in 1..Len(calls) : calls[i].cmd = c

IsEnsureCmd(c) == c \notin {"image_exists", "run"}

\* the commands ensure_image_exists issued after its existence check
EnsureCmds == SelectSeq(Cmds, IsEnsureCmd)

\* ensure_image_exists has returned, or has raised ContainerError
EnsureFinished == Ensured \/ (raised = "ContainerError" /\ ~Issued("run"))

AcquireCmd == IF config.use_local THEN "build" ELSE "pull"

RefreshCmds == {"ps", "stop", "rm", "rmi"}

\* C1 as stated: exists=false -> exactly one acquire (pull for Registry, build
\* for Local) and nothing else; exists=true without force_update -> no call;
\* exists=true with force_update -> enumerate, stop, remove, remove image, acquire.
C1_DecisionTableAsClaimed ==
    EnsureFinished =>
        EnsureCmds = IF rcs[1] # 0 THEN <<AcquireCmd>>
                     ELSE IF ~args.update THEN <<>>
                     ELSE <<"ps", "stop", "rm", "rmi", AcquireCmd>>

\* C1 amended: as stated for exists=false and for exists=true without
\* force_update; for exists=true with force_update the enumeration is issued
\* first, a non-zero enumeration ends ensure_image_exists there, otherwise stop
\* and remove are issued only when the enumeration returned a container, then the
\* image removal, then the acquire.
C1_DecisionTable ==
    EnsureFinished =>
        EnsureCmds = IF rcs[1] # 0 THEN <<AcquireCmd>>
                     ELSE IF ~args.update THEN <<>>
                     ELSE IF rcs[2] # 0 THEN <<"ps">>
                     ELSE IF container_ids = <<>> THEN <<"ps", "rmi", AcquireCmd>>
                     ELSE <<"ps", "stop", "rm", "rmi", AcquireCmd>>

C1_Witness ==
    /\ EnsureFinished /\ rcs[1] = 0 /\ args.update
    /\ container_ids = <<>>
    /\ EnsureCmds = <<"ps", "rmi", AcquireCmd>>

\* C2 as stated: a second invocation with the same configuration and
\* force_update=false starts with the existence check and issues no acquire and
\* no refresh call.
C2_IdempotentAsClaimed ==
    (prev.same /\ ~args.update) =>
        /\ calls # <<>> => calls[1].cmd = "image_exists"
        /\ \A i \in 1..Len(calls) : calls[i].cmd \in {"image_exists", "run"}

\* C2 amended: every invocation starts with the existence check; when the
\* previous invocation had the same configuration and force_update=false and its
\* ensure_image_exists returned without error, the image is present when the
\* second check is issued, and unless that check itself exits non-zero the second
\* invocation issues no acquire and no refresh call.
C2_Idempotent ==
    /\ calls # <<>> => calls[1].cmd = "image_exists"
    /\ (prev.same /\ prev.ensured /\ ~args.update) =>
        /\ pc = "image_exists" => config.image_name \in images
        /\ (rcs # <<>> /\ rcs[1] = 0) =>
               \A i \in 1..Len(calls) : calls[i].cmd \in {"image_exists", "run"}

C2_Witness ==
    /\ prev.same /\ prev.ensured /\ ~args.update
    /\ pc = "exited" /\ exit_code = 0
    /\ Cmds = <<"image_exists", "run">>

Rank(c) ==
    CASE c = "image_exists" -> 0
      [] c = "ps"   -> 1
      [] c = "stop" -> 2
      [] c = "rm"   -> 3
      [] c = "rmi"  -> 4
      [] c \in {"pull", "build"} -> 5
      [] c = "run"  -> 6

\* C3: in a refresh the commands are started in the order stop, rm, rmi, acquire,
\* each only after every earlier command has returned, and the acquire only
\* after the image removal has been attempted and has returned.
C3_RefreshOrder ==
    Issued("ps") =>
        /\ \A i, j \in 1..Len(calls) : i < j => Rank(calls[i].cmd) < Rank(calls[j].cmd)
        /\ \A j \in 2..Len(calls) : j - 1 <= Len(rcs)
        /\ Issued("rm") => Issued("stop")
        /\ (Issued("stop") /\ Issued("rmi")) => Issued("rm")
        /\ Issued(AcquireCmd) =>
               \E i \in 1..Len(rcs) : calls[i].cmd = "rmi"

C3_Witness ==
    /\ Cmds = <<"image_exists", "ps", "stop", "rm", "rmi", "build">>
    /\ Len(rcs) = 5

Next3(c) ==
    CASE c = "stop" -> "rm"
      [] c = "rm"   -> "rmi"
      [] c = "rmi"  -> AcquireCmd

\* C4: in a refresh a non-zero exit of stop, of rm or of rmi raises nothing and
\* the process goes on to the next step; whatever these three returned, the rest
\* of the cleanup and the acquire are issued, and ensure_image_exists fails
\* exactly when the acquire exits non-zero, with the acquire's code.
C4_CleanupFailureTolerated ==
    /\ \A i \in 1..Len(rcs) :
           (calls[i].cmd \in {"stop", "rm", "rmi"} /\ rcs[i] # 0 /\ i = Len(calls)) =>
               /\ raised = ""
               /\ pc = Next3(calls[i].cmd)
    /\ (Issued("stop") /\ EnsureFinished) =>
           /\ EnsureCmds = <<"ps", "stop", "rm", "rmi", AcquireCmd>>
           /\ Ensured <=> rcs[6] = 0
           /\ ~Ensured => exit_code = rcs[6]

C4_Witness ==
    /\ Cmds = <<"image_exists", "ps", "stop", "rm", "rmi", "pull">>
    /\ Len(rcs) = 6
    /\ rcs[3] # 0 /\ rcs[4] # 0 /\ rcs[5] # 0 /\ rcs[6] = 0
    /\ pc = "run"

\* C5 as stated: in a refresh only the acquire's failure is fatal; a failure of
\* any call before it, the enumeration included, never prevents the image
\* removal and the acquire from being issued.
C5_OnlyAcquireFatalAsClaimed ==
    (Issued("ps") /\ raised = "ContainerError") =>
        (Issued("rmi") /\ Issued(AcquireCmd))

\* C5 amended: in a refresh the calls whose non-zero exit is fatal are the
\* enumeration and the final acquire.  A non-zero enumeration ends the refresh at
\* once with that exit code, before any stop, rm, rmi or acquire; once the
\* enumeration has succeeded, no failure of stop, rm or rmi prevents the image
\* removal and the acquire from being issued.
C5_FatalCallsInRefresh ==
    /\ (Len(rcs) >= 2 /\ calls[2].cmd = "ps" /\ rcs[2] # 0) =>
           /\ raised = "ContainerError" /\ pc = "exited"
           /\ exit_code = rcs[2]
           /\ Cmds = <<"image_exists", "ps">>
    /\ (Issued("ps") /\ raised = "ContainerError") =>
           /\ calls[Len(calls)].cmd \in {"ps", AcquireCmd, "run"}
           /\ calls[Len(calls)].cmd # "ps" => (Issued("rmi") /\ Issued(AcquireCmd))
    /\ (Len(rcs) >= 2 /\ calls[2].cmd = "ps" /\ rcs[2] = 0 /\ pc = "exited"
            /\ raised \notin {"KeyboardInterrupt", "OSError"}) =>
           (Issued("rmi") /\ Issued(AcquireCmd))

C5_Witness ==
    /\ Cmds = <<"image_exists", "ps">>
    /\ rcs = <<0, 125>>
    /\ raised = "ContainerError" /\ exit_code = 125

\* C6: once the session run has returned, the process has exited with exactly
\* the exit code the run returned.
C6_ExitCodePassthrough ==
    \A i \in 1..Len(rcs) :
        calls[i].cmd = "run" =>
            /\ i = Len(calls)
            /\ pc = "exited"
            /\ exit_code = rcs[i]

C6_Witness ==
    /\ pc = "exited"
    /\ Len(rcs) = Len(calls)
    /\ calls[Len(calls)].cmd = "run"
    /\ rcs[Len(rcs)] = 3 /\ exit_code = 3

\* C7: when a pull or build returns a non-zero code c, it is the last engine
\* call of the invocation (no run, no second pull or build) and the process has
\* exited with exactly c.
C7_AcquireFailureFatal ==
    \A i \in 1..Len(rcs) :
        (calls[i].cmd \in {"pull", "build"} /\ rcs[i] # 0) =>
            /\ i = Len(calls)
            /\ pc = "exited"
            /\ raised = "ContainerError"
            /\ exit_code = rcs[i]
            /\ \A j \in 1..Len(calls) : calls[j].cmd \in {"pull", "build", "run"} => j = i

C7_Witness ==
    /\ Cmds = <<"image_exists", "pull">>
    /\ rcs = <<1, 125>>
    /\ pc = "exited" /\ exit_code = 125

\* C8: after an interrupt during a blocking engine call the process has exited
\* with 130, and the interrupted call is the last one it started.
C8_Cancellation ==
    raised = "KeyboardInterrupt" =>
        /\ pc = "exited"
        /\ exit_code = 130
        /\ Len(calls) = Len(rcs) + 1

C8_Witness ==
    /\ raised = "KeyboardInterrupt"
    /\ Cmds = <<"image_exists", "ps", "stop", "rm", "rmi">>
    /\ exit_code = 130

\* C9: exit code classes are disjoint: an engine command failure exits with a
\* code in 1..125, 130 is produced only by a user cancellation and 0 only by a
\* normal completion.
C9_ExitClassesDisjoint ==
    pc = "exited" =>
        /\ raised = "ContainerError" => exit_code \in 1..125
        /\ exit_code = 130 => raised = "KeyboardInterrupt"
        /\ exit_code = 0 => raised = ""

\* C10: a session run that ends with a non-zero exit code is not handled as an
\* error: no ContainerError is raised or logged for it, its code is just the
\* process exit code.
C10_SessionExitNotAnError ==
    \A i \in 1..Len(rcs) :
        (calls[i].cmd = "run" /\ rcs[i] # 0) =>
            /\ raised = ""
            /\ ~error_logged
            /\ exit_code = rcs[i]

\* the command at the end of calls could not be started
StartFailed == pc = "exited" /\ Len(calls) > Len(rcs) /\ raised # "KeyboardInterrupt"

\* C11: when an engine command cannot be started (executable missing, permission
\* denied), at any step, the failure is raised as ContainerError, logged by main's
\* handler, and no further engine call is issued.
C11_StartFailureIsContainerError ==
    StartFailed =>
        /\ raised = "ContainerError"
        /\ error_logged

\* C12: whenever ensure_image_exists has returned without error the image of the
\* configured identity is in the engine's store, and the session run is started
\* only with that image present.
C12_ImageReady ==
    Ensured =>
        /\ config.image_name \in images
        /\ Issued("run") => calls[Len(calls)].image \in images

C12_Witness ==
    /\ Cmds = <<"image_exists", "ps", "stop", "rm", "rmi", "pull", "run">>
    /\ rcs[3] # 0 /\ rcs[5] = 0
    /\ config.image_name \in images

\* C13: in every invocation, whatever engine state an earlier failed or
\* interrupted invocation left behind and with or without the refresh flag:
\* ContainerError is raised only by a non-zero enumeration, acquire or run, and an
\* invocation that ends without an exception has launched the session, with the
\* image present, and exits 0.
C13_Convergence ==
    /\ raised = "ContainerError" =>
           /\ Len(rcs) = Len(calls)
           /\ calls[Len(calls)].cmd \in {"ps", "pull", "build", "run"}
           /\ rcs[Len(rcs)] # 0
    /\ (pc = "exited" /\ raised = "") =>
           /\ calls[Len(calls)].cmd = "run"
           /\ Len(rcs) = Len(calls)
           /\ config.image_name \in images
           /\ exit_code = 0

C13_Witness ==
    /\ prev.same /\ ~prev.ensured /\ args.update
    /\ pc = "exited" /\ raised = "" /\ exit_code = 0
    /\ rcs[1] # 0
    /\ Cmds = <<"image_exists", "pull", "run">>

\* C14: with Registry source and no tag on the command line the identity is the
\* registry base name, ':' and the default tag; with Registry source and tag t it
\* is the base name, ':' and t; with Local source it is the fixed local name
\* whatever the tag.
C14_Identity ==
    pc # "idle" =>
        /\ (~argv.local /\ argv.tag = NoTag) =>
               config.image_name = "ghcr.io/oguztoraman/libmagicxx-dev:latest"
        /\ (~argv.local /\ argv.tag = "v10.0.x") =>
               config.image_name = "ghcr.io/oguztoraman/libmagicxx-dev:v10.0.x"
        /\ argv.local => config.image_name = "libmagicxx-dev-local"

C14_Witness ==
    /\ pc = "pull" /\ Len(calls) = 2
    /\ ~argv.local /\ argv.tag = "v10.0.x"
    /\ calls[2].image = "ghcr.io/oguztoraman/libmagicxx-dev:v10.0.x"

\* C16: in every invocation the existence check is the first engine call and is
\* issued once only; the branch taken rests on the result of that check alone,
\* whatever an earlier invocation found.
C16_FreshExistenceCheck ==
    /\ calls # <<>> =>
           /\ calls[1].cmd = "image_exists"
           /\ \A i \in 2..Len(calls) : calls[i].cmd # "image_exists"
    /\ rcs # <<>> => (exists <=> rcs[1] = 0)
    /\ Len(calls) >= 2 =>
           calls[2].cmd = IF rcs[1] # 0 THEN AcquireCmd
                          ELSE IF args.update THEN "ps"
                          ELSE "run"

C16_Witness ==
    /\ prev.same /\ prev.ensured
    /\ Len(calls) >= 2 /\ rcs[1] # 0
    /\ ~exists
    /\ calls[2].cmd = AcquireCmd

NamesImage(c) == c \in {"image_exists", "ps", "rmi", "pull", "build", "run"}

\* C17: within one invocation every engine call that names an image (existence
\* check, ancestor filter, image removal, pull, build tag, session run) names the
\* identity of the configuration, the same one from the first call to the last.
C17_SingleIdentity ==
    \A i \in 1..Len(calls) :
        NamesImage(calls[i].cmd) =>
            /\ calls[i].image = config.image_name
            /\ calls[i].image = calls[1].image

C17_Witness ==
    /\ Cmds = <<"image_exists", "ps", "stop", "rm", "rmi", "pull", "run">>
    /\ argv.tag = "v10.0.x"
    /\ \A i \in {1, 2, 5, 6, 7} :
           calls[i].image = "ghcr.io/oguztoraman/libmagicxx-dev:v10.0.x"

\* C18: a non-zero exit of the existence check raises nothing, whatever the code
\* and whether or not the image is there: exists is False and the next command is
\* the acquire, with or without the refresh flag.
C18_ExistenceFailureMeansAbsent ==
    (rcs # <<>> /\ rcs[1] # 0) =>
        /\ ~exists
        /\ Len(calls) = 1 => (raised = "" /\ pc = AcquireCmd)
        /\ Len(calls) >= 2 => calls[2].cmd = AcquireCmd

C18_Witness ==
    /\ Len(calls) >= 2
    /\ rcs[1] = 125
    /\ args.update
    /\ config.image_name \in images
    /\ calls[2].cmd = "build"

CountOf(c) == Cardinality({i \in 1..Len(calls) : calls[i].cmd = c})

BoundedCalls ==
    /\ Len(calls) <= 7
    /\ \A i, j \in 1..Len(calls) : i < j => Rank(calls[i].cmd) < Rank(calls[j].cmd)
    /\ Len(rcs) <= Len(calls) /\ Len(calls) <= Len(rcs) + 1
    /\ \A i \in 1..Len(calls) : calls[i].cmd = "run" => i = Len(calls)

\* C20: provided each engine call returns, every invocation ends with an exit
\* code, after at most seven engine calls, each kind at most once, never two
\* outstanding at a time, the session run being the last when it is issued.
C20_Terminates ==
    /\ [](BoundedCalls /\ (pc = "exited" => exit_code \in 0..255))
    /\ (pc \in Steps) ~> (pc = "exited")

C20_Witness ==
    /\ pc = "exited"
    /\ Cmds = <<"image_exists", "ps", "stop", "rm", "rmi", "build", "run">>
    /\ Len(rcs) = 7
    /\ exit_code = 0

====
